---- MODULE Spec2Model ----
(***************************************************************************)
(* Model of gpt_researcher/utils/llm.py: create_chat_completion (the       *)
(* completion orchestrator) and construct_subtopics (the structured-output *)
(* builder).                                                               *)
(*                                                                         *)
(* Python values are modelled as follows.  An Optional[T] is a record      *)
(* [some |-> FALSE] (None) or [some |-> TRUE, val |-> v].  A str is a      *)
(* sequence of one-character strings, so that `'o3' in model` is a real    *)
(* substring search.  A dict is a function whose domain is its key set.    *)
(* A float temperature is counted in tenths (0.4 is 4).                    *)
(*                                                                         *)
(* Both functions run on one asyncio event loop.  construct_subtopics      *)
(* contains no await, and create_chat_completion keeps all of its state in *)
(* locals, so the model runs one call at a time; the only state that lives *)
(* across calls is the list object bound to the default of the `subtopics` *)
(* parameter, which Python creates once, at function definition.           *)
(***************************************************************************)
EXTENDS Integers, Sequences, FiniteSets

\* ---------------------------------------------------------------- bounds
MaxModelLen == 2      \* longest model identifier drawn
MaxExtraKeys == 2     \* most keys in a drawn llm_kwargs dict
MaxParsed == 3        \* most entries in a parsed model output
MaxListLen == 2       \* most entries the caller appends to a returned list

\* ------------------------------------------------------- program constants
TokenLimit == 16001       \* llm.py:50  `max_tokens > 16001`
MaxAttempts == 10         \* llm.py:69  `for _ in range(10)`
DefaultTemperature == 4   \* llm.py:25  temperature = 0.4, in tenths
DefaultMaxTokens == 4000  \* llm.py:26  max_tokens = 4000

\* ----------------------------------------------------------- Python values
None == [some |-> FALSE]
Some(v) == [some |-> TRUE, val |-> v]

Chars == {"o", "1", "3"}

RECURSIVE StrsOfLen(_)
StrsOfLen(n) ==
    IF n = 0 THEN {<<>>}
    ELSE {Append(s, c) : s \in StrsOfLen(n - 1), c \in Chars}

Strs == UNION {StrsOfLen(n) : n \in 0..MaxModelLen}

\* Optional[str] model identifiers
OptModels == {None} \cup {Some(s) : s \in Strs}

\* Optional[int] max_tokens values, around the limit
MaxTokenVals == {None, Some(DefaultMaxTokens), Some(16000), Some(16001), Some(16002)}

ProviderIds == {"openai", "azure"}
Responses == {<<"h", "i">>}

\* the value a caller puts under each key of llm_kwargs
ExtraVal ==
    [model |-> <<"o", "1">>,
     temperature |-> 9,
     max_tokens |-> Some(100),
     reasoning_effort |-> "medium",
     top_p |-> 1]

ExtraKeys == DOMAIN ExtraVal

ExtraDicts ==
    {[k \in S |-> ExtraVal[k]] : S \in {T \in SUBSET ExtraKeys : Cardinality(T) <= MaxExtraKeys}}

\* Optional[dict] llm_kwargs
OptExtras == {None} \cup {Some(d) : d \in ExtraDicts}

\* ------------------------------------------------------------ dict helpers
\* `llm_kwargs or {}`
OrEmpty(optDict) == IF optDict.some THEN optDict.val ELSE <<>>

DictKeys(d) == IF d = <<>> THEN {} ELSE DOMAIN d

\* {**base, **over}: keys of `over` win
Merge(base, over) ==
    [k \in DictKeys(base) \cup DictKeys(over) |->
        IF k \in DictKeys(over) THEN over[k] ELSE base[k]]

\* d[key] = v
Put(d, key, v) ==
    [k \in DictKeys(d) \cup {key} |-> IF k = key THEN v ELSE d[k]]

\* `sub in s` for two strings
Contains(sub, s) ==
    \E i \in 0..(Len(s) - Len(sub)) : SubSeq(s, i + 1, i + Len(sub)) = sub

\* ------------------------------------------------- create_chat_completion
\* the check of line 48 left out
ModelMissingNever(model) == FALSE

\* llm.py:48  `if model is None`
ModelMissing(model) == ~model.some

\* llm.py:50  `if max_tokens is not None and max_tokens > 16001`
TokensTooMany(max_tokens) == max_tokens.some /\ max_tokens.val > TokenLimit

\* the two parts of the dict display in the other order
BaseKwargsModelLast(model, llm_kwargs) == Merge(OrEmpty(llm_kwargs), [model |-> model])

\* llm.py:55-58  kwargs = {'model': model, **(llm_kwargs or {})}
BaseKwargs(model, llm_kwargs) == Merge([model |-> model], OrEmpty(llm_kwargs))

\* the 'o3' test left out
IsReasoningModelO1Only(model) == Contains(<<"o", "1">>, model)

\* llm.py:60  `'o3' in model or 'o1' in model`
IsReasoningModel(model) ==
    Contains(<<"o", "3">>, model) \/ Contains(<<"o", "1">>, model)

\* llm.py:55-64  the parameters handed to get_llm
ShapeKwargs(model, llm_kwargs, temperature, max_tokens, reasoning_effort) ==
    IF IsReasoningModel(model)
    THEN Put(BaseKwargs(model, llm_kwargs), "reasoning_effort", reasoning_effort)
    ELSE Put(Put(BaseKwargs(model, llm_kwargs), "temperature", temperature),
             "max_tokens", max_tokens)

\* the exception caught and the loop continued
AfterProviderErrorRetry == "retry"

\* llm.py:70-72  an exception of get_chat_response is not caught: it leaves
\* the loop and the function
AfterProviderError == "raise"

\* the return left out of the loop body
AfterCostContinue == "loop"

\* llm.py:78  `return response` inside the loop body
AfterCost == "return"

NoOutcome == [kind |-> "none", who |-> ""]
Outcome(kind) == [kind |-> kind, who |-> ""]

NoRequest ==
    [model |-> None, max_tokens |-> None, temperature |-> 0,
     reasoning_effort |-> "", llm_kwargs |-> None, cost_callback |-> FALSE,
     llm_provider |-> ""]

VARIABLES
    cpc,        \* position of the running create_chat_completion call
    req,        \* its arguments
    kwargs,     \* local `kwargs`
    resolved,   \* get_llm was called in this run
    provider,   \* local `provider` is bound
    iter,       \* iterations of the for loop started
    invoked,    \* calls of provider.get_chat_response in this run
    failed,     \* how many of them raised
    response,   \* local `response`
    cbCalls,    \* calls of cost_callback in this run
    outcome     \* how the run ended

cvars ==
    <<cpc, req, kwargs, resolved, provider, iter, invoked, failed, response, cbCalls, outcome>>

VARIABLES
    spc,        \* position of the running construct_subtopics call
    dflt,       \* contents of the list object that is the default of `subtopics`
    sargs,      \* arguments of the call
    skwargs,    \* local `kwargs`
    sfailed,    \* the step of the call that raised, if one did
    soutput,    \* local `output`
    sresult,    \* what the call returned: the object and its contents
    soutcome    \* how the call ended

svars == <<spc, dflt, sargs, skwargs, sfailed, soutput, sresult, soutcome>>

vars == <<cvars, svars>>

CInit ==
    /\ cpc = "idle"
    /\ req = NoRequest
    /\ kwargs = <<>>
    /\ resolved = FALSE
    /\ provider = FALSE
    /\ iter = 0
    /\ invoked = 0
    /\ failed = 0
    /\ response = <<>>
    /\ cbCalls = 0
    /\ outcome = NoOutcome

\* a caller awaits create_chat_completion(...)
CCall ==
    /\ cpc = "idle"
    /\ spc = "idle"
    /\ \E m \in OptModels, mt \in MaxTokenVals, ex \in OptExtras,
          cb \in BOOLEAN, pid \in ProviderIds :
          req' = [model |-> m, max_tokens |-> mt,
                  temperature |-> DefaultTemperature,
                  reasoning_effort |-> "low", llm_kwargs |-> ex,
                  cost_callback |-> cb, llm_provider |-> pid]
    /\ cpc' = "validate"
    /\ UNCHANGED <<kwargs, resolved, provider, iter, invoked, failed, response, cbCalls, outcome>>
    /\ UNCHANGED svars

\* llm.py:47-52
CValidate ==
    /\ cpc = "validate"
    /\ IF ModelMissing(req.model) \/ TokensTooMany(req.max_tokens)
       THEN /\ outcome' = Outcome("ValueError")
            /\ cpc' = "done"
       ELSE /\ cpc' = "shape"
            /\ UNCHANGED outcome
    /\ UNCHANGED <<req, kwargs, resolved, provider, iter, invoked, failed, response, cbCalls>>
    /\ UNCHANGED svars

\* llm.py:55-64; `'o3' in None` raises TypeError
CShape ==
    /\ cpc = "shape"
    /\ IF ~req.model.some
       THEN /\ outcome' = Outcome("TypeError")
            /\ cpc' = "done"
            /\ UNCHANGED kwargs
       ELSE /\ kwargs' = ShapeKwargs(req.model.val, req.llm_kwargs, req.temperature,
                                     req.max_tokens, req.reasoning_effort)
            /\ cpc' = "resolve"
            /\ UNCHANGED outcome
    /\ UNCHANGED <<req, resolved, provider, iter, invoked, failed, response, cbCalls>>
    /\ UNCHANGED svars

\* llm.py:66-67  get_llm returns a provider or raises
CResolve ==
    /\ cpc = "resolve"
    /\ resolved' = TRUE
    /\ \E ok \in BOOLEAN :
          IF ok
          THEN /\ provider' = TRUE
               /\ cpc' = "loop"
               /\ UNCHANGED outcome
          ELSE /\ outcome' = Outcome("ResolveError")
               /\ cpc' = "done"
               /\ UNCHANGED provider
    /\ UNCHANGED <<req, kwargs, iter, invoked, failed, response, cbCalls>>
    /\ UNCHANGED svars

\* llm.py:69, 80-81  the head of `for _ in range(10)` and the code after it
CLoop ==
    /\ cpc = "loop"
    /\ IF iter < MaxAttempts
       THEN /\ iter' = iter + 1
            /\ cpc' = "invoke"
            /\ UNCHANGED outcome
       ELSE /\ outcome' = [kind |-> "RuntimeError", who |-> req.llm_provider]
            /\ cpc' = "done"
            /\ UNCHANGED iter
    /\ UNCHANGED <<req, kwargs, resolved, provider, invoked, failed, response, cbCalls>>
    /\ UNCHANGED svars

\* llm.py:70-72  await provider.get_chat_response(...): a response or an exception
CInvoke ==
    /\ cpc = "invoke"
    /\ invoked' = invoked + 1
    /\ \E ok \in BOOLEAN :
          IF ok
          THEN /\ \E r \in Responses : response' = r
               /\ cpc' = "cost"
               /\ UNCHANGED <<failed, outcome>>
          ELSE /\ UNCHANGED response
               /\ failed' = failed + 1
               /\ IF AfterProviderError = "raise"
                  THEN /\ outcome' = Outcome("ProviderError")
                       /\ cpc' = "done"
                  ELSE /\ cpc' = "loop"
                       /\ UNCHANGED outcome
    /\ UNCHANGED <<req, kwargs, resolved, provider, iter, cbCalls>>
    /\ UNCHANGED svars

\* llm.py:74-78  the cost callback, which may itself raise, then the return
CCost ==
    /\ cpc = "cost"
    /\ IF req.cost_callback
       THEN /\ cbCalls' = cbCalls + 1
            /\ \E raised \in BOOLEAN :
                  IF raised
                  THEN /\ outcome' = Outcome("CallbackError")
                       /\ cpc' = "done"
                  ELSE /\ IF AfterCost = "return"
                          THEN /\ outcome' = Outcome("returned")
                               /\ cpc' = "done"
                          ELSE /\ cpc' = "loop"
                               /\ UNCHANGED outcome
       ELSE /\ UNCHANGED cbCalls
            /\ IF AfterCost = "return"
               THEN /\ outcome' = Outcome("returned")
                    /\ cpc' = "done"
               ELSE /\ cpc' = "loop"
                    /\ UNCHANGED outcome
    /\ UNCHANGED <<req, kwargs, resolved, provider, iter, invoked, failed, response>>
    /\ UNCHANGED svars

\* the caller has the result; the call's locals are gone
CFinish ==
    /\ cpc = "done"
    /\ cpc' = "idle"
    /\ req' = NoRequest
    /\ kwargs' = <<>>
    /\ resolved' = FALSE
    /\ provider' = FALSE
    /\ iter' = 0
    /\ invoked' = 0
    /\ failed' = 0
    /\ response' = <<>>
    /\ cbCalls' = 0
    /\ outcome' = NoOutcome
    /\ UNCHANGED svars

\* ---------------------------------------------------- construct_subtopics
MaxSubtopicsVals == {1, 2}       \* config.max_subtopics
OwnLists == {<<>>, <<"S1">>}     \* lists a caller passes as `subtopics`

\* the entries of a parsed model output of n entries
ParsedOutput(n) == [i \in 1..n |-> "N"]

NoArgs ==
    [model |-> None, llm_kwargs |-> None, temperature |-> 0,
     token_limit |-> None, max_subtopics |-> 0, given |-> FALSE,
     own |-> <<>>, entry |-> <<>>]

NoResult == [ref |-> "none", val |-> <<>>]

\* the object the parameter `subtopics` is bound to (llm.py:84): the caller's
\* list, or the one default list when the argument is left out
ParamRef(args) == IF args.given THEN "arg" ELSE "default"

\* the contents of that object
ParamVal(args, d) == IF args.given THEN args.own ELSE d

\* llm.py:107-117  the parameters handed to get_llm
SubtopicsKwargs(model, llm_kwargs, temperature, token_limit) ==
    IF Contains(<<"o", "3">>, model) \/ Contains(<<"o", "1">>, model)
    THEN Put(Merge([model |-> model], OrEmpty(llm_kwargs)), "reasoning_effort", "high")
    ELSE Put(Put(Merge([model |-> model], OrEmpty(llm_kwargs)),
                 "temperature", temperature),
             "max_tokens", token_limit)

\* a handler for the parser's exception only
CaughtParseOnly(step) == step = "parse"

\* llm.py:134  `except Exception` catches what any step of the try block raises
Caught(step) == TRUE

\* llm.py:132  `return output`: the parsed output as it is
ReturnedOutput(output, max_subtopics) == output

SInit ==
    /\ spc = "idle"
    /\ dflt = <<>>
    /\ sargs = NoArgs
    /\ skwargs = <<>>
    /\ sfailed = "none"
    /\ soutput = <<>>
    /\ sresult = NoResult
    /\ soutcome = "none"

\* llm.py:134-136  a step raised: the handler returns the parameter's object,
\* unless the exception is not caught and leaves the function
Fails(step) ==
    /\ sfailed' = step
    /\ spc' = "done"
    /\ IF Caught(step)
       THEN /\ soutcome' = "FallenBack"
            /\ sresult' = [ref |-> ParamRef(sargs), val |-> ParamVal(sargs, dflt)]
       ELSE /\ soutcome' = "Raised"
            /\ UNCHANGED sresult

\* a caller awaits construct_subtopics(task, data, config[, subtopics])
SCall ==
    /\ spc = "idle"
    /\ cpc = "idle"
    /\ \E m \in OptModels, ex \in OptExtras, ms \in MaxSubtopicsVals,
          g \in BOOLEAN, own \in OwnLists :
          /\ (~g => own = <<>>)
          /\ sargs' = [model |-> m, llm_kwargs |-> ex,
                       temperature |-> DefaultTemperature,
                       token_limit |-> Some(DefaultMaxTokens),
                       max_subtopics |-> ms, given |-> g, own |-> own,
                       entry |-> IF g THEN own ELSE dflt]
    /\ spc' = "compose"
    /\ UNCHANGED <<dflt, skwargs, sfailed, soutput, sresult, soutcome>>
    /\ UNCHANGED cvars

\* llm.py:98-105  the parser and the prompt template
SCompose ==
    /\ spc = "compose"
    /\ \E ok \in BOOLEAN :
          IF ok
          THEN /\ spc' = "shape"
               /\ UNCHANGED <<sfailed, sresult, soutcome>>
          ELSE Fails("compose")
    /\ UNCHANGED <<dflt, sargs, skwargs, soutput>>
    /\ UNCHANGED cvars

\* llm.py:107-117; `'o3' in None` raises TypeError
SShape ==
    /\ spc = "shape"
    /\ IF ~sargs.model.some
       THEN /\ Fails("shape")
            /\ UNCHANGED skwargs
       ELSE /\ skwargs' = SubtopicsKwargs(sargs.model.val, sargs.llm_kwargs,
                                          sargs.temperature, sargs.token_limit)
            /\ spc' = "resolve"
            /\ UNCHANGED <<sfailed, sresult, soutcome>>
    /\ UNCHANGED <<dflt, sargs, soutput>>
    /\ UNCHANGED cvars

\* llm.py:119-123  get_llm returns a provider or raises
SResolve ==
    /\ spc = "resolve"
    /\ \E ok \in BOOLEAN :
          IF ok
          THEN /\ spc' = "invoke"
               /\ UNCHANGED <<sfailed, sresult, soutcome>>
          ELSE Fails("resolve")
    /\ UNCHANGED <<dflt, sargs, skwargs, soutput>>
    /\ UNCHANGED cvars

\* llm.py:125-130  chain.invoke, the prompt and the model: one call of the model
SInvoke ==
    /\ spc = "invoke"
    /\ \E ok \in BOOLEAN :
          IF ok
          THEN /\ spc' = "parse"
               /\ UNCHANGED <<sfailed, sresult, soutcome>>
          ELSE Fails("invoke")
    /\ UNCHANGED <<dflt, sargs, skwargs, soutput>>
    /\ UNCHANGED cvars

\* llm.py:125-132  chain.invoke, the parser: the text of the model is parsed
\* into some number of entries, or the parser raises; then `return output`
SParse ==
    /\ spc = "parse"
    /\ \E n \in (0..MaxParsed) \cup {-1} :
          IF n >= 0
          THEN /\ soutput' = ParsedOutput(n)
               /\ sresult' = [ref |-> "new",
                              val |-> ReturnedOutput(ParsedOutput(n), sargs.max_subtopics)]
               /\ soutcome' = "Succeeded"
               /\ spc' = "done"
               /\ UNCHANGED sfailed
          ELSE /\ Fails("parse")
               /\ UNCHANGED soutput
    /\ UNCHANGED <<dflt, sargs, skwargs>>
    /\ UNCHANGED cvars

\* the caller of a fallen-back call made without `subtopics` holds the default
\* list object itself, and appends to it
CallerAppend ==
    /\ spc = "done"
    /\ sresult.ref = "default"
    /\ Len(dflt) < MaxListLen
    /\ dflt' = Append(dflt, "S1")
    /\ UNCHANGED <<spc, sargs, skwargs, sfailed, soutput, sresult, soutcome>>
    /\ UNCHANGED cvars

\* the caller has the result; the call's locals are gone, the default list stays
SFinish ==
    /\ spc = "done"
    /\ spc' = "idle"
    /\ sargs' = NoArgs
    /\ skwargs' = <<>>
    /\ sfailed' = "none"
    /\ soutput' = <<>>
    /\ sresult' = NoResult
    /\ soutcome' = "none"
    /\ UNCHANGED dflt
    /\ UNCHANGED cvars

Init == CInit /\ SInit

Next ==
    \/ CCall
    \/ CValidate
    \/ CShape
    \/ CResolve
    \/ CLoop
    \/ CInvoke
    \/ CCost
    \/ CFinish
    \/ SCall
    \/ SCompose
    \/ SShape
    \/ SResolve
    \/ SInvoke
    \/ SParse
    \/ CallerAppend
    \/ SFinish

Spec == Init /\ [][Next]_vars

\* ------------------------------------------------------------ properties
\* the model identifier holds "o1" or "o3", read off its characters
HasMarker(m) ==
    \E i \in 1..(Len(m) - 1) : m[i] = "o" /\ m[i + 1] \in {"1", "3"}

\* the run has built its shaped parameters
Shaped == cpc \in {"resolve", "loop", "invoke", "cost", "done"} /\ kwargs # <<>>
SShaped == spc \in {"resolve", "invoke", "parse", "done"} /\ skwargs # <<>>

NothingReached == ~resolved /\ ~provider /\ invoked = 0 /\ cbCalls = 0

\* the keys the function itself sets for a model, and the keys of the other group
OwnGroup(m) ==
    IF HasMarker(m) THEN {"reasoning_effort"} ELSE {"temperature", "max_tokens"}
OtherGroup(m) ==
    IF HasMarker(m) THEN {"temperature", "max_tokens"} ELSE {"reasoning_effort"}

\* C1: a request whose max_tokens is above 16000 (16001 included) ends in the
\* validation error, with no provider resolved or invoked and no cost callback.
C1_Over16000Rejected ==
    (cpc # "idle" /\ req.max_tokens.some /\ req.max_tokens.val > 16000) =>
        /\ NothingReached
        /\ cpc \in {"validate", "done"}
        /\ (cpc = "done" => outcome.kind = "ValueError")

\* C2 as stated: a request whose model is None or empty ends in the validation
\* error, with no provider resolved or invoked and no cost callback.
C2_NoneOrEmptyRejected ==
    (cpc # "idle" /\ (~req.model.some \/ req.model.val = <<>>)) =>
        /\ NothingReached
        /\ cpc \in {"validate", "done"}
        /\ (cpc = "done" => outcome.kind = "ValueError")

\* C2 amended: a request whose model is None ends in the validation error,
\* with no provider resolved or invoked and no cost callback.
C2_NoneRejected ==
    (cpc # "idle" /\ ~req.model.some) =>
        /\ NothingReached
        /\ cpc \in {"validate", "done"}
        /\ (cpc = "done" => outcome.kind = "ValueError")

C2_Witness ==
    cpc = "done" /\ ~req.model.some /\ outcome.kind = "ValueError"

\* the parameters d hold exactly the group of model m
ExactlyOwnGroup(m, d) ==
    /\ OwnGroup(m) \subseteq DictKeys(d)
    /\ OtherGroup(m) \cap DictKeys(d) = {}

\* the parameters d hold the group of model m, and a key of the other group
\* exactly when the caller's extra parameters ex carry it
OwnGroupPlusExtras(m, ex, d) ==
    /\ OwnGroup(m) \subseteq DictKeys(d)
    /\ \A k \in OtherGroup(m) : k \in DictKeys(d) <=> k \in DictKeys(OrEmpty(ex))

\* C3 as stated: whatever the extra parameters, the shaped parameters hold
\* reasoning_effort and neither temperature nor max_tokens for a model with
\* "o1" or "o3" in its identifier, and temperature and max_tokens without
\* reasoning_effort for every other model.
C3_ExactlyOneGroup ==
    /\ (Shaped => ExactlyOwnGroup(req.model.val, kwargs))
    /\ (SShaped => ExactlyOwnGroup(sargs.model.val, skwargs))

\* C3 amended: the shaped parameters hold the group of the model's family;
\* they hold a key of the other group exactly when the caller's extra
\* parameters carry that key.
C3_OwnGroupPlusExtras ==
    /\ (Shaped => OwnGroupPlusExtras(req.model.val, req.llm_kwargs, kwargs))
    /\ (SShaped => OwnGroupPlusExtras(sargs.model.val, sargs.llm_kwargs, skwargs))

C3_Witness ==
    /\ Shaped
    /\ HasMarker(req.model.val)
    /\ "temperature" \in DictKeys(OrEmpty(req.llm_kwargs))
    /\ DictKeys(kwargs) = {"model", "reasoning_effort", "temperature"}

\* the value the request itself gives for a key of the two groups
RequestValue(k) ==
    CASE k = "temperature" -> req.temperature
      [] k = "max_tokens" -> req.max_tokens
      [] k = "reasoning_effort" -> req.reasoning_effort

\* C4 as stated: every key of the extra parameters but the model key keeps the
\* caller's value in the shaped parameters, and the model key of the shaped
\* parameters is the request's model identifier.
C4_ExtrasWinButModel ==
    Shaped =>
        /\ \A k \in DictKeys(OrEmpty(req.llm_kwargs)) \ {"model"} :
              kwargs[k] = OrEmpty(req.llm_kwargs)[k]
        /\ kwargs["model"] = req.model.val

\* C4 amended: a key of the extra parameters keeps the caller's value in the
\* shaped parameters, the model key included, unless it is a key of the
\* model's own group, which carries the request's value; the model key is the
\* request's model identifier when the extra parameters carry no model key.
C4_ExtrasWinButOwnGroup ==
    Shaped =>
        /\ \A k \in DictKeys(OrEmpty(req.llm_kwargs)) :
              kwargs[k] = IF k \in OwnGroup(req.model.val)
                          THEN RequestValue(k)
                          ELSE OrEmpty(req.llm_kwargs)[k]
        /\ \A k \in OwnGroup(req.model.val) : kwargs[k] = RequestValue(k)
        /\ ("model" \notin DictKeys(OrEmpty(req.llm_kwargs)) =>
                kwargs["model"] = req.model.val)

C4_Witness ==
    /\ Shaped
    /\ DictKeys(OrEmpty(req.llm_kwargs)) = {"model", "temperature"}
    /\ ~HasMarker(req.model.val)
    /\ kwargs["model"] = ExtraVal["model"]
    /\ kwargs["model"] # req.model.val
    /\ kwargs["temperature"] = DefaultTemperature

\* C5: the cost callback is called at most once in a run; once the provider
\* has returned a response, and before the run returns it, exactly once when
\* a callback was supplied; never in a run that ends in a validation error, a
\* provider resolution error or a provider invocation error.
C5_CallbackOnceOnSuccess ==
    /\ cbCalls <= 1
    /\ (cbCalls = 1 =>
            req.cost_callback /\ provider /\ invoked >= 1 /\ failed < invoked
            /\ response \in Responses)
    /\ (outcome.kind = "returned" =>
            cbCalls = (IF req.cost_callback THEN 1 ELSE 0))
    /\ (outcome.kind \in {"ValueError", "TypeError", "ResolveError", "ProviderError",
                          "RuntimeError"} => cbCalls = 0)

C5_Witness ==
    cpc = "done" /\ outcome.kind = "returned" /\ req.cost_callback /\ cbCalls = 1

\* C6: a run in which every invocation of the provider failed made at most 10 of
\* them and ends in the error raised after the loop, which names the provider.
C6_ExhaustedIsUnavailable ==
    (cpc = "done" /\ invoked >= 1 /\ failed = invoked) =>
        /\ invoked <= MaxAttempts
        /\ outcome = [kind |-> "RuntimeError", who |-> req.llm_provider]

\* C7: a call of construct_subtopics ends Succeeded or FallenBack and never
\* raises; when any step of it failed it ends FallenBack and returns the
\* object it was given as `subtopics`, with the contents it had on entry.
C7_NeverRaises ==
    spc = "done" =>
        /\ soutcome \in {"Succeeded", "FallenBack"}
        /\ (sfailed # "none" <=> soutcome = "FallenBack")
        /\ (soutcome = "FallenBack" =>
                /\ sresult.ref = ParamRef(sargs)
                /\ sresult.val = sargs.entry)
        /\ (sargs.given => ParamVal(sargs, dflt) = sargs.entry)

C7_Witness ==
    /\ spc = "done"
    /\ sfailed = "invoke"
    /\ soutcome = "FallenBack"
    /\ sargs.given
    /\ sresult = [ref |-> "arg", val |-> <<"S1">>]

\* C8: a call of construct_subtopics that succeeds returns at most
\* config.max_subtopics entries.
C8_AtMostMaxSubtopics ==
    (spc = "done" /\ soutcome = "Succeeded") =>
        Len(sresult.val) <= sargs.max_subtopics

\* C9: a call of construct_subtopics made without `subtopics` that falls back
\* returns an empty list, whatever earlier callers did with what they got.
C9_DefaultFallbackEmpty ==
    (spc = "done" /\ soutcome = "FallenBack" /\ ~sargs.given) =>
        sresult.val = <<>>

\* C10: a run that passed validation and provider resolution invokes the
\* provider exactly once: the loop starts one iteration, a failed invocation
\* ends the run with the provider's error, and the code after the loop is not
\* reached.
C10_InvokedExactlyOnce ==
    provider =>
        /\ iter <= 1
        /\ invoked <= 1
        /\ (cpc = "loop" => iter = 0 /\ invoked = 0)
        /\ (cpc \in {"cost", "done"} => invoked = 1)
        /\ outcome.kind # "RuntimeError"
        /\ (failed = 1 => cpc = "done" /\ outcome.kind = "ProviderError")
        /\ (cpc = "done" /\ failed = 0 => outcome.kind \in {"returned", "CallbackError"})

C10_Witness ==
    /\ cpc = "done"
    /\ provider
    /\ invoked = 1
    /\ failed = 1
    /\ outcome.kind = "ProviderError"

====
